---------------------------- MODULE Spec2Model ----------------------------
(***************************************************************************)
(* A model of the dynerror crate (src/dynerror/src/lib.rs): the Error      *)
(* value, its three renderings (Display "{}", alternate Display "{:#}",    *)
(* Debug) and the Context protocol over Option and Result.                 *)
(*                                                                         *)
(* An error value together with everything it owns is a sequence of        *)
(* layers, outermost first: the head is the value itself and the tail is   *)
(* what `wraps` owns (the empty sequence for `wraps: None`).  Each layer   *)
(* records the concrete type behind the `dyn Error` pointer, because       *)
(* Debug::fmt decides by downcast_ref::<Error>():                          *)
(*    "Error"       a dynerror::Error                                       *)
(*    "Box<Error>"  the Box<Error> that Box::<dyn Error>::from(Box::new(_)) *)
(*                  erases (lib.rs:53, lib.rs:246); it forwards Display and *)
(*                  source() to the Error inside but has its own TypeId     *)
(*    "Foreign"     any other std::error::Error; its Display is its own     *)
(*                  text and it carries no location                        *)
(*                                                                         *)
(* Rendered text is a sequence of tokens <<kind, n>> so that separators,   *)
(* newlines, tabs, locations and message texts stay distinguishable.       *)
(***************************************************************************)
EXTENDS Integers, Sequences, FiniteSets, TLC

VARIABLES
    val,    \* the Option / Result value in flight
    prev,   \* the value the last operation consumed
    hist,   \* the operations applied so far, oldest first
    calls   \* how many times a with_context closure has been invoked

vars == <<val, prev, hist, calls>>

----------------------------------------------------------------------------
(* Bounds *)

\* operations applied to one value
MaxOps == 3

\* deepest source() chain below a foreign originating failure
MaxDepth == 2

----------------------------------------------------------------------------
(* Text *)

Lit(s) == <<s, 0>>
Num(n) == <<"#", n>>
Text(i) == <<"msg", i>>
ForeignText(k) == <<"foreign", k>>

Sep == Lit(": ")
NL == Lit("\n")
Tab == Lit("\t")

\* the payload of a Some / Ok
Payload == "t"

\* #[track_caller] call sites in application code (src/src/main.rs:70, :73)
Sites ==
    { [file |-> "src/main.rs", line |-> 70, column |-> 10],
      [file |-> "src/main.rs", line |-> 73, column |-> 10] }

\* the line of the recursive Error::from_error(e) inside from_error's closure
FromErrorInnerLine == 54
FromErrorInnerColumn == 21
\* the line of the Error::from_error(e) inside result()'s closure
ResultInnerLine == 247
ResultInnerColumn == 25

\* Location::caller() of a call made from a closure is the call itself
FromErrorInnerSite ==
    [file |-> "dynerror/src/lib.rs", line |-> FromErrorInnerLine,
     column |-> FromErrorInnerColumn]
ResultInnerSite ==
    [file |-> "dynerror/src/lib.rs", line |-> ResultInnerLine,
     column |-> ResultInnerColumn]

----------------------------------------------------------------------------
(* The Error value *)

\* struct Error { msg, wraps, file, line, column }
Error(msg, wraps, loc) ==
    <<[ty |-> "Error", msg |-> msg, file |-> loc.file, line |-> loc.line,
       column |-> loc.column]>> \o wraps

\* a foreign error and its source() chain: level k of depth d
RECURSIVE Foreign(_, _)
Foreign(k, d) ==
    <<[ty |-> "Foreign", msg |-> <<ForeignText(k)>>, file |-> "", line |-> 0,
       column |-> 0]>> \o (IF k < d THEN Foreign(k + 1, d) ELSE <<>>)

\* Box::<dyn StdError + Send + Sync>::from(Box::new(e)): From<E: Error> with
\* E = Box<Error>, so the erased concrete type is Box<Error>
BoxFrom(e) == [e EXCEPT ![1].ty = "Box<Error>"]

\* Error::source / <Box<T> as Error>::source / a foreign source()
source(e) == Tail(e)

\* source.downcast_ref::<Error>() is Some
downcast_ref_Error(e) == e[1].ty = "Error"

\* a Display that forgets the cause
Display_MessageOnly(e) == e[1].msg

\* impl Display for Error, "{}": the message, then ": " and the cause's "{}"
RECURSIVE Display(_)
Display(e) ==
    IF e[1].ty = "Foreign" THEN e[1].msg
    ELSE IF source(e) # <<>> THEN e[1].msg \o <<Sep>> \o Display(source(e))
    ELSE e[1].msg

\* impl Display for Error, "{:#}": the message only
DisplayAlternate(e) == e[1].msg

\* the cause loop of Debug::fmt
RECURSIVE DebugCauses(_)
DebugCauses(e) ==
    IF e = <<>> THEN <<>>
    ELSE (IF downcast_ref_Error(e)
          THEN <<Lit(e[1].file), Lit(":"), Num(e[1].line), Lit(":"),
                 Num(e[1].column), Sep>> \o e[1].msg \o <<NL>>
          ELSE Display(e) \o <<NL>>)
         \o DebugCauses(source(e))

\* impl Debug for Error
Debug(e) ==
    LET header == <<Lit("error:"), Lit(e[1].file), Lit(":"), Num(e[1].line),
                    Lit(":"), Num(e[1].column), Sep>> \o e[1].msg
    IN IF source(e) = <<>> THEN header
       ELSE header \o <<NL, NL, Lit("caused by:"), NL, Tab>>
                   \o DebugCauses(source(e))

\* Error::new
new(msg, loc) == Error(msg, <<>>, loc)

\* Error::from_error
RECURSIVE from_error(_, _)
from_error(err, loc) ==
    Error(Display(err),
          IF source(err) # <<>>
          THEN BoxFrom(from_error(source(err), FromErrorInnerSite))
          ELSE <<>>,
          loc)

----------------------------------------------------------------------------
(* Result values *)

Some(t) == [shape |-> "Option", ok |-> TRUE, t |-> t, err |-> <<>>]
None == [shape |-> "Option", ok |-> FALSE, t |-> "", err |-> <<>>]
Ok(t) == [shape |-> "Result", ok |-> TRUE, t |-> t, err |-> <<>>]
Err(e) == [shape |-> "Result", ok |-> FALSE, t |-> "", err |-> e]

\* impl Context for Option: context
context_Option(self, context, loc) ==
    IF self.ok THEN Ok(self.t) ELSE Err(Error(context, <<>>, loc))

\* impl Context for Option: with_context; f is the text the closure returns
with_context_Option(self, f, loc) ==
    IF self.ok THEN [r |-> Ok(self.t), invoked |-> 0]
    ELSE [r |-> Err(Error(f, <<>>, loc)), invoked |-> 1]

\* impl Context for Option: result
result_Option(self, loc) ==
    IF self.ok THEN Ok(self.t)
    ELSE Err(Error(<<Lit("an optional value was None")>>, <<>>, loc))

\* a context that normalizes the failure it wraps through from_error
context_Result_Normalizing(self, context, loc) ==
    IF self.ok THEN Ok(self.t)
    ELSE Err(Error(context, BoxFrom(from_error(self.err, loc)), loc))

\* a context that reports where the wrapped Error was built
context_Result_InheritsLoc(self, context, loc) ==
    IF self.ok THEN Ok(self.t)
    ELSE Err(Error(context, self.err,
                   IF self.err[1].ty = "Error"
                   THEN [file |-> self.err[1].file, line |-> self.err[1].line,
                         column |-> self.err[1].column]
                   ELSE loc))

\* impl Context for Result: context
context_Result(self, context, loc) ==
    IF self.ok THEN Ok(self.t) ELSE Err(Error(context, self.err, loc))

\* a with_context that evaluates its closure before looking at the input
with_context_Result_Eager(self, f, loc) ==
    IF self.ok THEN [r |-> Ok(self.t), invoked |-> 1]
    ELSE [r |-> Err(Error(f, self.err, loc)), invoked |-> 1]

\* impl Context for Result: with_context
with_context_Result(self, f, loc) ==
    IF self.ok THEN [r |-> Ok(self.t), invoked |-> 0]
    ELSE [r |-> Err(Error(f, self.err, loc)), invoked |-> 1]

\* impl Context for Result: result
result_Result(self, loc) ==
    IF self.ok THEN Ok(self.t)
    ELSE Err(Error(Display(self.err),
                   IF source(self.err) # <<>>
                   THEN BoxFrom(from_error(source(self.err), ResultInnerSite))
                   ELSE <<>>,
                   loc))

----------------------------------------------------------------------------
(* The state machine: one value, one operation at a time *)

Op(name, m, loc) ==
    [op |-> name, shape |-> val.shape, failed |-> ~val.ok, msg |-> m,
     site |-> loc]

\* the text of the message the next operation attaches.  No code path reads
\* inside a message, so only distinctness matters: the k-th operation
\* attaches the k-th text
NextMsg == <<Text(Len(hist) + 1)>>

Step(name, m, loc, v, n) ==
    /\ Len(hist) < MaxOps
    /\ val' = v
    /\ prev' = val
    /\ hist' = Append(hist, Op(name, m, loc))
    /\ calls' = calls + n

Init ==
    /\ val \in {Some(Payload), None, Ok(Payload)}
               \cup {Err(Foreign(0, d)) : d \in 0..MaxDepth}
    /\ prev = val
    /\ hist = <<>>
    /\ calls = 0

\* bail!(..) / Err(err!(..)) after the work so far succeeded
New(loc) ==
    /\ val.ok
    /\ Step("new", NextMsg, loc, Err(new(NextMsg, loc)), 0)

\* .map_err(Error::from_error)
FromError(loc) ==
    /\ val.shape = "Result"
    /\ ~val.ok
    /\ Step("from_error", <<>>, loc, Err(from_error(val.err, loc)), 0)

ContextOption(loc) ==
    /\ val.shape = "Option"
    /\ Step("context", NextMsg, loc, context_Option(val, NextMsg, loc), 0)

WithContextOption(loc) ==
    /\ val.shape = "Option"
    /\ LET out == with_context_Option(val, NextMsg, loc)
       IN Step("with_context", NextMsg, loc, out.r, out.invoked)

ResultOption(loc) ==
    /\ val.shape = "Option"
    /\ Step("result", <<>>, loc, result_Option(val, loc), 0)

ContextResult(loc) ==
    /\ val.shape = "Result"
    /\ Step("context", NextMsg, loc, context_Result(val, NextMsg, loc), 0)

WithContextResult(loc) ==
    /\ val.shape = "Result"
    /\ LET out == with_context_Result(val, NextMsg, loc)
       IN Step("with_context", NextMsg, loc, out.r, out.invoked)

ResultResult(loc) ==
    /\ val.shape = "Result"
    /\ Step("result", <<>>, loc, result_Result(val, loc), 0)

Next ==
    \E loc \in Sites :
        \/ New(loc)
        \/ FromError(loc)
        \/ ContextOption(loc)
        \/ WithContextOption(loc)
        \/ ResultOption(loc)
        \/ ContextResult(loc)
        \/ WithContextResult(loc)
        \/ ResultResult(loc)

Spec == Init /\ [][Next]_vars

----------------------------------------------------------------------------
(* Helpers for the properties *)

Last == hist[Len(hist)]

\* the last operation was `names` applied to a failed value of `shape`
LastFailed(names, shape) ==
    /\ hist # <<>>
    /\ Last.op \in names
    /\ Last.shape = shape
    /\ Last.failed

Loc(layer) == [file |-> layer.file, line |-> layer.line, column |-> layer.column]

IsErrorValue(layer) == layer.ty \in {"Error", "Box<Error>"}

Innermost(e) == e[Len(e)]

\* the value in flight is an Err holding a dynerror Error
HoldsError == ~val.ok /\ val.shape = "Result" /\ val.err[1].ty = "Error"

\* a1 .. aN attached in this order over m0: "aN: ... : a1: m0"
RECURSIVE Joined(_, _)
Joined(h, m0) ==
    IF h = <<>> THEN m0
    ELSE h[Len(h)].msg \o <<Sep>> \o Joined(SubSeq(h, 1, Len(h) - 1), m0)

OnlyContext(h) ==
    \A i \in DOMAIN h : h[i].op \in {"context", "with_context"} /\ h[i].failed

\* the text split at newlines, each line without its newline
RECURSIVE Lines(_)
Lines(s) ==
    IF s = <<>> THEN <<>>
    ELSE IF \E i \in DOMAIN s : s[i] = NL
    THEN LET i == CHOOSE j \in DOMAIN s :
                      s[j] = NL /\ \A l \in 1..(j - 1) : s[l] # NL
         IN <<SubSeq(s, 1, i - 1)>> \o Lines(SubSeq(s, i + 1, Len(s)))
    ELSE <<s>>

Tokens(s) == {s[i] : i \in DOMAIN s}

----------------------------------------------------------------------------
(* Properties *)

\* C1: N context / with_context attachments a1..aN over an originating
\* failure whose message is m0 render in chained mode ("{}") as
\* "aN: ... : a1: m0", outermost first; N = 0 renders m0.
C1_ChainedRenderJoinsContexts ==
    /\ (~val.ok /\ val.shape = "Result" /\ OnlyContext(hist)
        /\ (hist # <<>> => hist[1].shape = "Result"))
       => Display(val.err) = Joined(hist, <<ForeignText(0)>>)
    /\ \A j \in DOMAIN hist :
         (hist[j].op = "new" /\ OnlyContext(SubSeq(hist, j + 1, Len(hist))))
         => Display(val.err)
              = Joined(SubSeq(hist, j + 1, Len(hist)), hist[j].msg)

\* C1 witness: two attachments over a foreign failure that has its own
\* source chain, the outer one lazy and the inner one eager
C1_Witness ==
    /\ Len(hist) = 2
    /\ hist[1].op = "context" /\ hist[1].failed /\ hist[1].shape = "Result"
    /\ hist[2].op = "with_context"
    /\ Len(val.err) = 4
    /\ Display(val.err)
         = <<Text(2), Sep, Text(1), Sep, ForeignText(0)>>

\* C2: for every Error, however built, the concise render ("{:#}") is the
\* outermost error's own message and contains no message text of any cause.
C2_ConciseHasNoCauseText ==
    HoldsError =>
        /\ DisplayAlternate(val.err) = val.err[1].msg
        /\ \A k \in 2..Len(val.err) :
             \A tok \in Tokens(val.err[k].msg) :
                 tok[1] \in {"msg", "foreign"}
                 => tok \notin Tokens(DisplayAlternate(val.err))

\* the text Debug writes after "caused by:" and its newline
CauseText(e) ==
    LET d == Debug(e)
        i == CHOOSE j \in DOMAIN d : d[j] = Lit("caused by:")
    IN SubSeq(d, i + 2, Len(d))

Untabbed(line) == IF line # <<>> /\ line[1] = Tab THEN Tail(line) ELSE line

\* C3: the trace render (Debug) of an Error with N >= 1 causes is the header,
\* a blank line, "caused by:", a newline, and exactly N cause lines in chain
\* order, every one of them beginning with exactly one tab.
C3_EveryCauseLineTabbed ==
    (HoldsError /\ Len(val.err) >= 2) =>
        LET e == val.err
            d == Debug(e)
            n == Len(e) - 1
            header == <<Lit("error:"), Lit(e[1].file), Lit(":"),
                        Num(e[1].line), Lit(":"), Num(e[1].column), Sep>>
                      \o e[1].msg
            marker == <<NL, NL, Lit("caused by:"), NL>>
            rest == SubSeq(d, Len(header) + Len(marker) + 1, Len(d))
            ls == Lines(rest)
        IN /\ SubSeq(d, 1, Len(header) + Len(marker)) = header \o marker
           /\ Len(ls) = n
           /\ \A k \in 1..n :
                /\ ls[k] # <<>>
                /\ ls[k][1] = Tab
                /\ Tab \notin Tokens(Tail(ls[k]))
                /\ Tokens(e[k + 1].msg) \subseteq Tokens(ls[k])

\* C4: in the trace render every cause that is an Error value, the causes
\* from_error and result() create included, is shown as
\* "<file>:<line>:<col>: <message>" with its own provenance and own message
\* only; only a foreign cause is shown as its plain display text.
C4_ErrorCausesShowLocation ==
    (HoldsError /\ Len(val.err) >= 2) =>
        LET e == val.err
            ls == Lines(CauseText(e))
        IN \A k \in 1..(Len(e) - 1) :
             /\ k <= Len(ls)
             /\ Untabbed(ls[k])
                  = IF IsErrorValue(e[k + 1])
                    THEN <<Lit(e[k + 1].file), Lit(":"), Num(e[k + 1].line),
                           Lit(":"), Num(e[k + 1].column), Sep>>
                         \o e[k + 1].msg
                    ELSE e[k + 1].msg

\* C5: with_context invokes its closure zero times on Some / Ok and exactly
\* once on None / Err, for Option and for Result, and on Some / Ok the value
\* comes back unchanged as Ok.
C5_WithContextIsLazy ==
    /\ calls = Cardinality({i \in DOMAIN hist :
                               hist[i].op = "with_context" /\ hist[i].failed})
    /\ (hist # <<>> /\ Last.op = "with_context" /\ ~Last.failed)
       => (prev.ok /\ val = Ok(prev.t) /\ val.t = Payload)

\* C5 witness: a with_context on Some that invoked nothing, and later a
\* with_context on Err that invoked the closure once
C5_Witness ==
    /\ Len(hist) = 3
    /\ hist[1].op = "with_context" /\ hist[1].shape = "Option"
    /\ ~hist[1].failed
    /\ hist[3].op = "with_context" /\ hist[3].shape = "Result"
    /\ hist[3].failed
    /\ calls = 1

\* C6: from_error of an error with D causes yields an Error with exactly D
\* causes, every element an Error value, whose message at each level equals
\* the message of the input's element at that level.
C6_FromErrorKeepsDepthAndMessages ==
    LastFailed({"from_error"}, "Result") =>
        /\ Len(val.err) = Len(prev.err)
        /\ \A k \in DOMAIN val.err :
             /\ IsErrorValue(val.err[k])
             /\ k <= Len(prev.err) => val.err[k].msg = prev.err[k].msg

\* C7: when from_error or result() normalizes a chain whose elements are
\* already Error values, each normalized cause keeps the provenance of the
\* original element; only the new outermost Error gets the call site.
C7_NormalizationKeepsProvenance ==
    LastFailed({"from_error", "result"}, "Result") =>
        /\ Loc(val.err[1]) = Last.site
        /\ \A k \in 2..Len(prev.err) :
             prev.err[k].ty = "Error"
             => (k <= Len(val.err) /\ Loc(val.err[k]) = Loc(prev.err[k]))

\* C8 as stated: context(msg) on a failed Result builds an Error with message
\* msg, the call site as provenance, and the prior failure normalized through
\* from_error as cause, so every element of the cause chain is an Error
\* value; on an absent Option, message msg and no cause.
C8_ContextNormalizesCause ==
    /\ LastFailed({"context"}, "Result") =>
         /\ val.err[1].msg = Last.msg
         /\ Loc(val.err[1]) = Last.site
         /\ Len(val.err) = Len(prev.err) + 1
         /\ \A k \in 2..Len(val.err) : IsErrorValue(val.err[k])
    /\ LastFailed({"context"}, "Option") =>
         /\ val.err[1].msg = Last.msg
         /\ Len(val.err) = 1

\* C8 amended: context(msg) on a failed Result builds an Error with message
\* msg, the call site as provenance, and the prior failure itself, as it
\* was and not normalized, as cause: the cause chain is the prior failure's
\* own chain, foreign where that was foreign; on an absent Option, message
\* msg, the call site and no cause.
C8_ContextWrapsCauseAsIs ==
    /\ LastFailed({"context"}, "Result") =>
         /\ ~val.ok
         /\ val.err[1].ty = "Error"
         /\ val.err[1].msg = Last.msg
         /\ Loc(val.err[1]) = Last.site
         /\ source(val.err) = prev.err
    /\ LastFailed({"context"}, "Option") =>
         /\ ~val.ok
         /\ val.err[1].ty = "Error"
         /\ val.err[1].msg = Last.msg
         /\ Loc(val.err[1]) = Last.site
         /\ source(val.err) = <<>>

\* C8 witness: context over a foreign failure that has a source of its own
C8_Witness ==
    /\ LastFailed({"context"}, "Result")
    /\ prev.err[1].ty = "Foreign"
    /\ Len(prev.err) >= 2
    /\ ~IsErrorValue(val.err[2])
    /\ ~IsErrorValue(val.err[3])

\* C9: every Error carries the call site of the operation that built it, not
\* that of the failure it wraps: the same failure given context at two
\* distinct sites yields different (line, column) and the same innermost
\* cause message, and a further context layer leaves the wrapped Error's
\* provenance and message as they were.
C9_ProvenanceIsCallSite ==
    /\ (hist # <<>> /\ ~val.ok /\ (Last.failed \/ Last.op = "new"))
       => Loc(val.err[1]) = Last.site
    /\ LastFailed({"context", "with_context"}, "Result") =>
         /\ \A k \in DOMAIN prev.err :
              /\ Loc(val.err[k + 1]) = Loc(prev.err[k])
              /\ val.err[k + 1].msg = prev.err[k].msg
         /\ Innermost(val.err).msg = Innermost(prev.err).msg
         /\ \A other \in Sites \ {Last.site} :
              LET twin == context_Result(prev, Last.msg, other).err
              IN /\ <<twin[1].line, twin[1].column>>
                      # <<val.err[1].line, val.err[1].column>>
                 /\ Innermost(twin).msg = Innermost(val.err).msg

\* C9 witness: a context layer at one site over an Error built at the other
C9_Witness ==
    /\ LastFailed({"context"}, "Result")
    /\ prev.err[1].ty = "Error"
    /\ Loc(prev.err[1]) # Last.site
    /\ Loc(val.err[2]) = Loc(prev.err[1])
    /\ Len(val.err) >= 3

\* C10: normalizing an Error adds no message text: Err(e).result() and
\* Error::from_error(e) render in chained mode exactly as e does, and a
\* second result() leaves the render unchanged.
C10_NormalizationAddsNoText ==
    (LastFailed({"from_error", "result"}, "Result")
     /\ prev.err[1].ty = "Error")
    => Display(val.err) = Display(prev.err)

=============================================================================
